---- MODULE Spec2Model ----
(***************************************************************************)
(* Model of the repository backends of vscode-sync-settings:               *)
(*   - WebDAVRepository    (src/src/repositories/webdav.ts)                *)
(*   - LocalGitRepository  (src/unnamed/part_000)                          *)
(*                                                                         *)
(* Every public handler (initialize, download, upload, duplicateProfileTo) *)
(* is one action.  A handler is an asynchronous function that awaits one    *)
(* operation after the other, so it is computed by operators that thread a  *)
(* machine record through the operations in program order; the record       *)
(* carries the stores, the log of the operations issued and the pending     *)
(* exception (err), which makes every later operation a no-op until a       *)
(* catch clears it.                                                         *)
(***************************************************************************)
EXTENDS Integers, Sequences, FiniteSets, TLC

(***************************************************************************)
(* Bounds of the model.                                                    *)
(***************************************************************************)
\* entries (files and directories, the roots apart) of the local mirror and
\* the remote store together, in an initial state
MaxEntries == 3
\* the same, when a backend is followed from its construction through
\* initialize, download and upload
MaxLifecycleEntries == 2
\* files of the working tree of the Git backend in an initial state
MaxGitFiles == 1
\* commits of one behaviour of the Git backend
MaxCommits == 1

(***************************************************************************)
(* Paths, contents, trees.                                                 *)
(***************************************************************************)
\* the segment names, in the order a sorted listing gives them
NameOrder == <<".c", "a", "b">>
Names == {NameOrder[i] : i \in 1..Len(NameOrder)}
\* names starting with a period
DotNames == {".c"}

\* Uri.file('') / the literal '/' of the source: the root path
Root == <<>>
\* Uri.joinPath(dir, name)
joinPath(dir, name) == Append(dir, name)
\* Uri.joinPath(dir, '..')
Parent(p) == IF p = Root THEN Root ELSE SubSeq(p, 1, Len(p) - 1)
IsPrefix(a, p) == Len(a) <= Len(p) /\ SubSeq(p, 1, Len(a)) = a
\* the proper ancestors of p, the root included
Ancestors(p) == {SubSeq(p, 1, k) : k \in 0..(Len(p) - 1)}

\* File contents as stored: two UTF-8 texts, a byte string that is not valid
\* UTF-8, and the text the decoder makes of it (U+FFFD replacement).
Texts == {"t1", "t2", "rep"}
Blob == "bin"
Contents == Texts \cup {Blob}
\* readFile(..., 'utf8'): bytes to string
Utf8Decode(bytes) == IF bytes = Blob THEN "rep" ELSE bytes
\* writeFile(..., data, 'utf8'): string to bytes
Utf8Encode(text) == text

\* A tree: dirs is the set of directories (the root included when it
\* exists), files the set of <<path, content>> pairs.
NoTree == [dirs |-> {}, files |-> {}]
EmptyTree == [dirs |-> {Root}, files |-> {}]
FilePaths(t) == {e[1] : e \in t.files}
ContentOf(t, p) == (CHOOSE e \in t.files : e[1] = p)[2]
Exists(t, p) == p \in t.dirs \/ p \in FilePaths(t)
Entries(t) == Cardinality(t.dirs \ {Root}) + Cardinality(t.files)
WellFormed(t) ==
    /\ t.dirs \cap FilePaths(t) = {}
    /\ \A p \in (t.dirs \cup FilePaths(t)) \ {Root} : Parent(p) \in t.dirs
    /\ \A e1, e2 \in t.files : e1[1] = e2[1] => e1 = e2

\* the trees made of t and one more leaf entry
Grow(t, contents) ==
    LET slots == {joinPath(d, n) : d \in t.dirs, n \in Names}
        free == {p \in slots : ~Exists(t, p)}
    IN {[t EXCEPT !.dirs = @ \cup {p}] : p \in free}
       \cup {[t EXCEPT !.files = @ \cup {<<p, c>>}] : p \in free, c \in contents}

RECURSIVE TreesUpTo(_, _)
TreesUpTo(n, contents) ==
    IF n = 0 THEN {EmptyTree}
    ELSE LET smaller == TreesUpTo(n - 1, contents)
         IN smaller \cup UNION {Grow(t, contents) : t \in smaller}

\* the names of the entries of directory dir, in listing order
Listing(t, dir, rev) ==
    LET idx == [i \in 1..Len(NameOrder) |->
                   IF rev THEN Len(NameOrder) + 1 - i ELSE i]
        all == [i \in 1..Len(NameOrder) |-> NameOrder[idx[i]]]
    IN SelectSeq(all, LAMBDA n : Exists(t, joinPath(dir, n)))

(***************************************************************************)
(* The machine record threaded through a handler.                          *)
(*   remote, local : the two stores                                        *)
(*   inited        : the _initialized flag of the backend                  *)
(*   exists        : the directory cache of the running push (the keys     *)
(*                   whose value is true)                                  *)
(*   log           : the operations issued so far, in order                *)
(*   n             : the number of remote operations issued so far         *)
(*   faults        : the remote operations (by number) the network fails   *)
(*   err           : an exception is propagating                           *)
(*   ret           : the value the last operation returned                 *)
(*   errors        : the messages given to Logger.error                    *)
(***************************************************************************)
Machine(rem, loc, ini, faults) ==
    [remote |-> rem, local |-> loc, inited |-> ini, exists |-> {},
     log |-> <<>>, n |-> 0, faults |-> faults, err |-> FALSE, ret |-> <<>>,
     errors |-> <<>>]

\* a log entry: the operation, its path, whether it succeeded, the bytes it
\* wrote, and the directory cache at the moment it was issued
Entry(m, op, path, ok, data) ==
    [op |-> op, path |-> path, ok |-> ok, data |-> data, cache |-> m.exists]
NoData == "-"
RemoteOps == {"stat", "mkdir", "readdir", "readFile", "writeFile"}

\* a remote operation is issued: it is logged and counted, and it throws
\* when it fails
Issue(m, op, path, ok, data) ==
    [m EXCEPT !.n = @ + 1, !.log = Append(@, Entry(m, op, path, ok, data)), !.err = ~ok]
\* a local operation or a lifecycle step: logged, throws when it fails
Local(m, op, path, ok, data) ==
    [m EXCEPT !.log = Append(@, Entry(m, op, path, ok, data)), !.err = ~ok]
\* the next remote operation is hit by an injected fault
Faulty(m) == (m.n + 1) \in m.faults
\* a catch clause: the exception stops propagating
Caught(m) == [m EXCEPT !.err = FALSE]
\* Logger.info(text)
Logger_info(text, path, m) == IF m.err THEN m ELSE Local(m, "info", path, TRUE, text)

(***************************************************************************)
(* The remote store behind the WebDAVFS interface.  An operation fails     *)
(* when the network fails it or when the store refuses it: stat of a path   *)
(* that does not exist; mkdir of a path that exists or whose parent is no   *)
(* directory; readdir of what is no directory; readFile of what is no file; *)
(* writeFile onto a directory or into what is no directory.                 *)
(***************************************************************************)
fs_stat(path, m) ==
    IF m.err THEN m
    ELSE Issue(m, "stat", path, ~Faulty(m) /\ Exists(m.remote, path), NoData)

fs_mkdir(path, m) ==
    IF m.err THEN m
    ELSE LET ok == /\ ~Faulty(m)
                   /\ ~Exists(m.remote, path)
                   /\ path # Root => Parent(path) \in m.remote.dirs
             m1 == Issue(m, "mkdir", path, ok, NoData)
         IN IF ok THEN [m1 EXCEPT !.remote.dirs = @ \cup {path}] ELSE m1

fs_readdir(path, rev, m) ==
    IF m.err THEN m
    ELSE LET ok == ~Faulty(m) /\ path \in m.remote.dirs
             m1 == Issue(m, "readdir", path, ok, NoData)
         IN IF ok THEN [m1 EXCEPT !.ret = Listing(m.remote, path, rev)] ELSE m1

fs_readFile(path, m) ==
    IF m.err THEN m
    ELSE LET ok == ~Faulty(m) /\ path \in FilePaths(m.remote)
             m1 == Issue(m, "readFile", path, ok, NoData)
         IN IF ok THEN [m1 EXCEPT !.ret = Utf8Decode(ContentOf(m.remote, path))] ELSE m1

fs_writeFile(path, data, m) ==
    IF m.err THEN m
    ELSE LET ok == /\ ~Faulty(m)
                   /\ path # Root
                   /\ Parent(path) \in m.remote.dirs
                   /\ path \notin m.remote.dirs
             bytes == Utf8Encode(data)
             m1 == Issue(m, "writeFile", path, ok, bytes)
         IN IF ok
            THEN [m1 EXCEPT !.remote.files =
                     {e \in @ : e[1] # path} \cup {<<path, bytes>>}]
            ELSE m1

(***************************************************************************)
(* The local mirror (fs, fs-extra).  Local operations are not hit by        *)
(* injected faults; they fail when the file system refuses them.            *)
(***************************************************************************)
\* fse.remove(path): the path and everything below it, no error when absent
fse_remove(path, m) ==
    IF m.err THEN m
    ELSE LET m1 == Local(m, "remove", path, TRUE, NoData)
         IN [m1 EXCEPT !.local =
                [dirs |-> {d \in @.dirs : ~IsPrefix(path, d)},
                 files |-> {e \in @.files : ~IsPrefix(path, e[1])}]]

\* fse.mkdir(path): not recursive, fails when the path exists
fse_mkdir(path, m) ==
    IF m.err THEN m
    ELSE LET ok == /\ ~Exists(m.local, path)
                   /\ path # Root => Parent(path) \in m.local.dirs
             m1 == Local(m, "lmkdir", path, ok, NoData)
         IN IF ok THEN [m1 EXCEPT !.local.dirs = @ \cup {path}] ELSE m1

\* fs.writeFile(path, data, 'utf8')
local_writeFile(path, data, m) ==
    IF m.err THEN m
    ELSE LET ok == /\ path # Root
                   /\ Parent(path) \in m.local.dirs
                   /\ path \notin m.local.dirs
             bytes == Utf8Encode(data)
             m1 == Local(m, "lwrite", path, ok, bytes)
         IN IF ok
            THEN [m1 EXCEPT !.local.files =
                     {e \in @ : e[1] # path} \cup {<<path, bytes>>}]
            ELSE m1

\* fs.readFile(path, 'utf8')
local_readFile(path, m) ==
    IF m.err THEN m
    ELSE LET ok == path \in FilePaths(m.local)
             m1 == Local(m, "lread", path, ok, NoData)
         IN IF ok THEN [m1 EXCEPT !.ret = Utf8Decode(ContentOf(m.local, path))] ELSE m1

\* globby('**', {cwd, followSymbolicLinks: false}): the regular files below
\* dir, names starting with a period (files and directories) left out
RECURSIVE globbyWalk(_, _, _, _)
globbyWalk(t, dir, names, rev) ==
    IF names = <<>> THEN <<>>
    ELSE LET p == joinPath(dir, Head(names))
             here == IF Head(names) \in DotNames THEN <<>>
                     ELSE IF p \in t.dirs THEN globbyWalk(t, p, Listing(t, p, rev), rev)
                     ELSE <<p>>
         IN here \o globbyWalk(t, dir, Tail(names), rev)

globby(t, rev) == globbyWalk(t, Root, Listing(t, Root, rev), rev)

(***************************************************************************)
(* WebDAVRepository: push.                                                 *)
(***************************************************************************)
\* an ensureDir that does not consult the cache
RECURSIVE ensureDir_uncached(_, _)
ensureDir_uncached(dir, m) ==
    IF m.err THEN m
    ELSE LET m1 == IF dir # Root THEN ensureDir_uncached(Parent(dir), m) ELSE m
             m2 == fs_stat(dir, m1)
             m3 == IF m2.err THEN fs_mkdir(dir, Caught(m2)) ELSE m2
         IN IF m1.err THEN m1
            ELSE IF m3.err THEN m3
            ELSE [m3 EXCEPT !.exists = @ \cup {dir}]

\* an ensureDir that does not ensure the parent first
ensureDir_noParent(dir, m) ==
    IF m.err \/ dir \in m.exists THEN m
    ELSE LET m2 == fs_stat(dir, m)
             m3 == IF m2.err THEN fs_mkdir(dir, Caught(m2)) ELSE m2
         IN IF m3.err THEN m3
            ELSE [m3 EXCEPT !.exists = @ \cup {dir}]

\* an ensureDir that creates the directory only when the probe failed on a
\* path that does not exist
RECURSIVE ensureDir_notFoundOnly(_, _)
ensureDir_notFoundOnly(dir, m) ==
    IF m.err \/ dir \in m.exists THEN m
    ELSE LET m1 == IF dir # Root THEN ensureDir_notFoundOnly(Parent(dir), m) ELSE m
             m2 == fs_stat(dir, m1)
             m3 == IF m2.err /\ ~Exists(m2.remote, dir)
                   THEN fs_mkdir(dir, Caught(m2))
                   ELSE m2
         IN IF m1.err THEN m1
            ELSE IF m3.err THEN m3
            ELSE [m3 EXCEPT !.exists = @ \cup {dir}]

RECURSIVE ensureDir(_, _)
ensureDir(dir, m) ==
    IF m.err \/ dir \in m.exists THEN m
    ELSE LET m1 == IF dir # Root THEN ensureDir(Parent(dir), m) ELSE m
             m2 == fs_stat(dir, m1)
             m3 == IF m2.err THEN fs_mkdir(dir, Caught(m2)) ELSE m2
         IN IF m1.err THEN m1
            ELSE IF m3.err THEN m3
            ELSE [m3 EXCEPT !.exists = @ \cup {dir}]

\* a pushFile that goes on to the upload when ensureDir has thrown
pushFile_ensureCaught(file, m) ==
    LET m0 == Logger_info("push file", file, m)
        m1 == ensureDir(Parent(file), m0)
        m2 == local_readFile(file, IF m0.err THEN m1 ELSE Caught(m1))
    IN fs_writeFile(file, m2.ret, m2)

pushFile(file, m) ==
    LET m0 == Logger_info("push file", file, m)
        m1 == ensureDir(Parent(file), m0)
        m2 == local_readFile(file, m1)
    IN fs_writeFile(file, m2.ret, m2)

\* a loop that stops one file short
RECURSIVE pushFiles_dropLast(_, _)
pushFiles_dropLast(files, m) ==
    IF m.err \/ Len(files) <= 1 THEN m
    ELSE pushFiles_dropLast(Tail(files), pushFile(Head(files), m))

\* a loop that swallows the error of a file and goes on with the next
RECURSIVE pushFiles_keepGoing(_, _)
pushFiles_keepGoing(files, m) ==
    IF files = <<>> THEN m
    ELSE pushFiles_keepGoing(Tail(files), pushFile(Head(files), Caught(m)))

RECURSIVE pushFiles(_, _)
pushFiles(files, m) ==
    IF m.err \/ files = <<>> THEN m
    ELSE pushFiles(Tail(files), pushFile(Head(files), m))

\* a push that uses the cache object it finds
push_sharedCache(rev, m) ==
    LET m1 == Logger_info("push to webdav", Root, m)
        files == globby(m1.local, rev)
        m2 == pushFiles(files, m1)
    IN Logger_info("push done", Root, m2)

push(rev, m) ==
    LET m1 == Logger_info("push to webdav", Root, m)
        files == globby(m1.local, rev)
        m2 == pushFiles(files, [m1 EXCEPT !.exists = {}])
    IN Logger_info("push done", Root, m2)

(***************************************************************************)
(* WebDAVRepository: pull.                                                 *)
(***************************************************************************)
pullFile(file, m) ==
    LET m1 == fs_readFile(file, m)
    IN local_writeFile(file, m1.ret, m1)

\* a pullDirectory that creates the directory and does not descend into it
pullDirectory_shallow(dir, rev, m) == fse_mkdir(dir, m)

RECURSIVE pullDirectory(_, _, _)
RECURSIVE pullEntries(_, _, _, _)
pullEntries(names, dir, rev, m) ==
    IF m.err \/ names = <<>> THEN m
    ELSE LET p == joinPath(dir, Head(names))
             m1 == IF p \in m.remote.dirs THEN pullDirectory(p, rev, m)
                   ELSE pullFile(p, m)
         IN pullEntries(Tail(names), dir, rev, m1)

\* a pullDirectory that lists the remote directory before it creates the
\* local one
pullDirectory_listFirst(dir, rev, m) ==
    LET m1 == fs_readdir(dir, rev, m)
        m2 == fse_mkdir(dir, m1)
    IN pullEntries(m1.ret, dir, rev, m2)

pullDirectory(dir, rev, m) ==
    LET m1 == fse_mkdir(dir, m)
        m2 == fs_readdir(dir, rev, m1)
    IN pullEntries(m2.ret, dir, rev, m2)

\* a pull that empties the mirror once the root listing has arrived
pull_listFirst(rev, m) ==
    LET m0 == Logger_info("pull from webdav", Root, m)
        m1 == fs_readdir(Root, rev, m0)
        m2 == fse_remove(Root, m1)
        m3 == fse_mkdir(Root, m2)
        m4 == pullEntries(m1.ret, Root, rev, m3)
    IN Logger_info("pull done", Root, m4)

pull(rev, m) ==
    LET m0 == Logger_info("pull from webdav", Root, m)
        m1 == fse_remove(Root, m0)
        m2 == fse_mkdir(Root, m1)
        m3 == fs_readdir(Root, rev, m2)
        m4 == pullEntries(m3.ret, Root, rev, m3)
    IN Logger_info("pull done", Root, m4)

(***************************************************************************)
(* The base class FileRepository and TemporaryRepository, which the        *)
(* handlers call and whose code is not part of the sources: each is a step  *)
(* that is logged and either completes or throws (input ok).                *)
(***************************************************************************)
\* FileRepository.checkInitialized(): throws unless the flag is set
checkInitialized(m) ==
    IF m.err THEN m ELSE Local(m, "checkInitialized", Root, m.inited, NoData)

\* TemporaryRepository.initialize(settings, type, url, options)
TemporaryRepository_initialize(ok, m) ==
    IF m.err THEN m ELSE Local(m, "tempInitialize", Root, ok, NoData)

\* FileRepository.initialize(): the local profile setup; sets the flag
FileRepository_initialize(ok, m) ==
    IF m.err THEN m
    ELSE LET m1 == Local(m, "baseInitialize", Root, ok, NoData)
         IN IF ok THEN [m1 EXCEPT !.inited = TRUE] ELSE m1

\* FileRepository.download(): applies the mirror to the editor's settings
FileRepository_download(ok, m) ==
    IF m.err THEN m ELSE Local(m, "baseDownload", Root, ok, NoData)

\* FileRepository.upload(): copies the editor's settings into the mirror.
\* edit is "none", "throw" or "write" (the settings file <<"a">> is written).
BaseEdits == {"none", "throw", "write"}
FileRepository_upload(edit, m) ==
    IF m.err THEN m
    ELSE LET m1 == Local(m, "baseUpload", Root, edit # "throw", NoData)
             f == <<"a">>
         IN IF edit = "write" /\ f \notin m.local.dirs /\ Root \in m.local.dirs
            THEN [m1 EXCEPT !.local.files = {e \in @ : e[1] # f} \cup {<<f, "t2">>}]
            ELSE m1

(***************************************************************************)
(* WebDAVRepository: the health check of initialize.                       *)
(***************************************************************************)
Url == "https://dav.example/sync"
Unauthorized == 401
NotFound == 404
\* what the root stat can throw: an object with a code, a status and its
\* String(error) text ("none" and 0: the property is absent)
NoError == [code |-> "none", status |-> 0, text |-> "ok"]
Errors ==
    [code : {"ECONNREFUSED", "ETIMEDOUT", "none"},
     status : {0, Unauthorized, NotFound, 500},
     text : {"Error: request failed"}]

RefusedMessage == "The connection to \"" \o Url \o "\" is refused."
UnauthorizedMessage == "The connection to \"" \o Url \o "\" isn't authorized."
NotFoundMessage == "The url \"" \o Url \o "\" can't be found."

\* a catch clause that tests the status before the code
HealthMessage_statusFirst(error) ==
    IF error.status = Unauthorized THEN UnauthorizedMessage
    ELSE IF error.status = NotFound THEN NotFoundMessage
    ELSE IF error.code = "ECONNREFUSED" THEN RefusedMessage
    ELSE error.text

\* the catch clause of initialize: the message given to Logger.error
HealthMessage(error) ==
    IF error.code = "ECONNREFUSED" THEN RefusedMessage
    ELSE IF error.status = Unauthorized THEN UnauthorizedMessage
    ELSE IF error.status = NotFound THEN NotFoundMessage
    ELSE error.text

\* a health check that lets initialize go on whatever the root stat did
HealthCheckPassed_always(m) == TRUE

\* the try block of initialize completed: no exception reached the catch
HealthCheckPassed(m) == ~m.err

initialize(error, tmpOk, baseOk, m) ==
    LET m1 == TemporaryRepository_initialize(tmpOk, m)
        m2 == fs_stat(Root, m1)
    IN IF m1.err THEN m1
       ELSE IF HealthCheckPassed(m2) THEN FileRepository_initialize(baseOk, m2)
       ELSE [Caught(m2) EXCEPT !.errors = Append(@, HealthMessage(error))]

\* a download that goes on to the base step when pull has thrown
download_pullCaught(rev, baseOk, m) ==
    FileRepository_download(baseOk, Caught(pull(rev, checkInitialized(m))))

download(rev, baseOk, m) ==
    FileRepository_download(baseOk, pull(rev, checkInitialized(m)))

\* an upload that pushes before the base step
upload_pushFirst(edit, rev, m) ==
    FileRepository_upload(edit, push(rev, checkInitialized(m)))

upload(edit, rev, m) ==
    push(rev, FileRepository_upload(edit, checkInitialized(m)))

(***************************************************************************)
(* LocalGitRepository.                                                     *)
(*                                                                         *)
(* The mirror holds profiles/<profile>/<file>.  A git machine record has   *)
(*   root    : the mirror directory exists                                 *)
(*   repo    : where checkIsRepo() finds a repository: "none", at the      *)
(*             "root" of the mirror, or in a "parent" directory of it      *)
(*   wt      : the files of the working tree, <<profile, name, content>>   *)
(*   pdirs   : the profiles whose directory exists                         *)
(*   head    : the files of the last commit                                *)
(*   commits : the messages of the commits made, oldest first              *)
(*   ginited : LocalGitRepository._initialized                             *)
(*   profile : LocalGitRepository._profile                                 *)
(*   log, n, faults, err, ret : as for the WebDAV machine; the counted and *)
(*             faultable operations are the calls of simple-git            *)
(***************************************************************************)
Profiles == {"main", "work"}
GitKeep == ".gitkeep"
FileNames == {GitKeep, "settings"}
\* CommitType
CREATE == "create"
UPLOAD == "upload"
CommitTypes == {CREATE, UPLOAD}
Branch == "main"

\* a log entry: the operation, its argument, whether it succeeded and what
\* it returned; the operation throws when it fails
GitEntry(op, arg, ok, ret) == [op |-> op, arg |-> arg, ok |-> ok, ret |-> ret]
GitIssue(m, op, arg, ok, ret) ==
    [m EXCEPT !.n = @ + 1, !.log = Append(@, GitEntry(op, arg, ok, ret)),
              !.err = ~ok, !.ret = ret]
GitLocal(m, op, arg, ok, ret) ==
    [m EXCEPT !.log = Append(@, GitEntry(op, arg, ok, ret)),
              !.err = ~ok, !.ret = ret]

WtPaths(files) == {<<e[1], e[2]>> : e \in files}
WtWrite(files, prof, name, data) ==
    {e \in files : <<e[1], e[2]>> # <<prof, name>>} \cup {<<prof, name, data>>}

\* git status after git add .: the paths that differ between the working
\* tree and the last commit (added, modified, deleted)
Staged(m) == WtPaths((m.wt \ m.head) \cup (m.head \ m.wt))

\* simple-git: a call fails on an injected fault, and outside a repository
\* when it needs one
git_add(m) ==
    IF m.err THEN m
    ELSE GitIssue(m, "add", ".", ~Faulty(m) /\ m.repo # "none", FALSE)

git_status(m) ==
    IF m.err THEN m
    ELSE GitIssue(m, "status", ".", ~Faulty(m) /\ m.repo # "none", Staged(m))

\* git commit -m message: makes no commit when nothing is staged
git_commit(message, m) ==
    IF m.err THEN m
    ELSE LET ok == ~Faulty(m) /\ m.repo # "none"
             m1 == GitIssue(m, "commit", message, ok, FALSE)
         IN IF ok /\ Staged(m) # {}
            THEN [m1 EXCEPT !.head = m.wt, !.commits = Append(@, message)]
            ELSE m1

git_checkIsRepo(m) ==
    IF m.err THEN m
    ELSE GitIssue(m, "checkIsRepo", ".", ~Faulty(m), m.repo # "none")

git_init(branch, m) ==
    IF m.err THEN m
    ELSE LET ok == ~Faulty(m)
             m1 == GitIssue(m, "init", branch, ok, FALSE)
         IN IF ok THEN [m1 EXCEPT !.repo = "root", !.head = {}] ELSE m1

\* a message made of the value of the commit type
CommitMessage_typeValue(type, profile) == profile \o ": " \o type

\* the commit message of push
CommitMessage(type, profile) ==
    IF type = CREATE THEN profile \o ": create" ELSE profile \o ": update"

\* a push that commits whatever is staged
ShouldCommit_always(staged) == TRUE

\* push commits when the staged list is not empty
ShouldCommit(staged) == staged # {}

LocalGit_push(type, profile, m) ==
    IF m.err THEN m
    ELSE LET m0 == GitLocal(m, "push", <<type, profile>>, TRUE, FALSE)
             m1 == git_add(m0)
             m2 == git_status(m1)
         IN IF m2.err THEN m2
            ELSE IF ShouldCommit(m2.ret) THEN git_commit(CommitMessage(type, profile), m2)
            ELSE m2

LocalGit_pull(m) ==
    IF m.err THEN m
    ELSE LET m1 == [GitLocal(m, "ensureDir", ".", TRUE, FALSE) EXCEPT !.root = TRUE]
             m2 == git_checkIsRepo(m1)
             m3 == IF m2.err THEN m2
                   ELSE IF ~m2.ret THEN git_init(Branch, m2)
                   ELSE m2
         IN IF m3.err THEN m3 ELSE [m3 EXCEPT !.ret = TRUE]

\* if(!await exists(gitkeepPath)) { mkdir(profilePath, recursive); writeFile(gitkeepPath, '') }
\* returns (in ret) whether the marker had to be written
EnsureGitKeep(prof, m) ==
    IF m.err THEN m
    ELSE LET found == <<prof, GitKeep>> \in WtPaths(m.wt)
             m1 == GitLocal(m, "exists", <<prof, GitKeep>>, TRUE, found)
             m2 == GitLocal(m1, "mkdir", <<prof>>, TRUE, FALSE)
             m3 == GitLocal(m2, "writeFile", <<prof, GitKeep>>, TRUE, FALSE)
         IN IF found THEN [m1 EXCEPT !.ret = FALSE]
            ELSE [m3 EXCEPT !.root = TRUE,
                            !.pdirs = @ \cup {prof},
                            !.wt = WtWrite(@, prof, GitKeep, ""),
                            !.ret = TRUE]

\* an initialize that sets the flag as soon as pull has returned true
LocalGit_initialize_flagFirst(m) ==
    LET m1 == LocalGit_pull(m)
        m1f == [m1 EXCEPT !.ginited = TRUE]
        m2 == EnsureGitKeep(m1f.profile, m1f)
        m3 == IF ~m2.err /\ m2.ret THEN LocalGit_push(CREATE, m2.profile, m2) ELSE m2
    IN IF m1.err THEN m1
       ELSE IF ~m1.ret THEN GitLocal(m1, "error", "can not pull git repository", TRUE, FALSE)
       ELSE m3

LocalGit_initialize(m) ==
    LET m1 == LocalGit_pull(m)
        m2 == EnsureGitKeep(m1.profile, m1)
        m3 == IF ~m2.err /\ m2.ret THEN LocalGit_push(CREATE, m2.profile, m2) ELSE m2
    IN IF m1.err THEN m1
       ELSE IF ~m1.ret THEN GitLocal(m1, "error", "can not pull git repository", TRUE, FALSE)
       ELSE IF m3.err THEN m3
       ELSE [m3 EXCEPT !.ginited = TRUE]

\* FileRepository.upload(): copies the editor's settings into the current
\* profile.  edit is "none", "throw", or the content written to the settings file.
GitEdits == {"none", "throw", "x"}
GitBase_upload(edit, m) ==
    IF m.err THEN m
    ELSE LET m1 == GitLocal(m, "baseUpload", edit, edit # "throw", FALSE)
         IN IF edit \in {"none", "throw"} THEN m1
            ELSE [m1 EXCEPT !.root = TRUE,
                            !.pdirs = @ \cup {m.profile},
                            !.wt = WtWrite(@, m.profile, "settings", edit)]

LocalGit_upload(edit, m) ==
    LocalGit_push(UPLOAD, m.profile, GitBase_upload(edit, m))

\* FileRepository.duplicateProfileTo(): copies the directory of the original
\* profile to the new one (nothing when it does not exist); ok: does not throw
GitBase_duplicateProfileTo(orig, new, ok, m) ==
    IF m.err THEN m
    ELSE LET m1 == GitLocal(m, "baseDuplicate", <<orig, new>>, ok, FALSE)
             copied == {<<new, e[2], e[3]>> : e \in {x \in m.wt : x[1] = orig}}
         IN IF ok /\ orig \in m.pdirs
            THEN [m1 EXCEPT !.pdirs = @ \cup {new},
                            !.wt = {e \in @ : <<e[1], e[2]>> \notin WtPaths(copied)}
                                   \cup copied]
            ELSE m1

\* a duplicateProfileTo that pushes with the default profile
duplicateProfileTo_defaultProfile(orig, new, ok, m) ==
    LET m1 == GitBase_duplicateProfileTo(orig, new, ok, m)
        m2 == EnsureGitKeep(new, m1)
    IN LocalGit_push(CREATE, m2.profile, m2)

duplicateProfileTo(orig, new, ok, m) ==
    LET m1 == GitBase_duplicateProfileTo(orig, new, ok, m)
        m2 == EnsureGitKeep(new, m1)
    IN LocalGit_push(CREATE, new, m2)

(***************************************************************************)
(* State of the WebDAV backend.                                            *)
(*   remote, local : the remote store and the local mirror                 *)
(*   inited        : WebDAVRepository._initialized                         *)
(* and, of the handler that ran last:                                      *)
(*   last   : its name ("none" before the first)                           *)
(*   threw  : it threw                                                     *)
(*   log    : the operations it issued                                     *)
(*   logged : what it gave to Logger.error                                 *)
(*   thrown : what the root stat of initialize threw (NoError: nothing)    *)
(*   prev   : the stores, the flag and the cache object when it started    *)
(* and                                                                     *)
(*   cached : the directory cache object as the last push left it; what a  *)
(*            cache that outlived its push would hold                      *)
(***************************************************************************)
VARIABLES remote, local, inited, last, threw, log, logged, thrown, prev, cached

(***************************************************************************)
(* State of the Git backend: the fields of the git machine record that     *)
(* outlive a handler (groot, repo, wt, pdirs, head, commits, ginited,      *)
(* curProfile) and, of the handler that ran last, its name (glast),        *)
(* whether it threw (gthrew), its log (glog) and the state it started in   *)
(* (gprev).                                                                *)
(***************************************************************************)
VARIABLES groot, repo, wt, pdirs, head, commits, ginited, curProfile,
          glast, gthrew, glog, gprev

davVars == <<remote, local, inited, last, threw, log, logged, thrown, prev, cached>>
gitVars == <<groot, repo, wt, pdirs, head, commits, ginited, curProfile,
             glast, gthrew, glog, gprev>>
vars == <<davVars, gitVars>>

InitContents == {"t1", Blob}

\* the pairs <<local, remote>> of trees with at most n entries together
TreePairs(n) ==
    UNION {{<<l, r>> : r \in TreesUpTo(n - Entries(l), InitContents)} :
              l \in TreesUpTo(n, InitContents)}

\* Where an injected fault can hit handler run(_): at none (0) or at one of
\* the remote operations the run issues when nothing is injected.  The one
\* catch clause that lets a run go on after a failed remote operation is
\* followed by an operation the store refuses when the failure was injected,
\* so a second injected fault changes no outcome.
FaultPoints(m0) == 0..m0.n
FaultAt(k) == IF k = 0 THEN {} ELSE {k}

Idle == last = "none"
AllRemotePaths == remote.dirs \cup FilePaths(remote)

DavSnapshot ==
    [remote |-> remote, local |-> local, inited |-> inited, cached |-> cached]

DavIdle ==
    /\ last = "none"
    /\ threw = FALSE
    /\ log = <<>>
    /\ logged = <<>>
    /\ thrown = NoError
    /\ cached = {}
    /\ prev = DavSnapshot

\* the machine a handler of the WebDAV backend starts on
DavMachine(faults) ==
    [Machine(remote, local, inited, faults) EXCEPT !.exists = cached]

\* the handler that was run on machine m has returned or thrown
Finish(name, error, m) ==
    /\ remote' = m.remote
    /\ local' = m.local
    /\ inited' = m.inited
    /\ last' = name
    /\ threw' = m.err
    /\ log' = m.log
    /\ logged' = m.errors
    /\ thrown' = error
    /\ cached' = m.exists
    /\ prev' = DavSnapshot
    /\ UNCHANGED gitVars

Initialize ==
    /\ Idle
    /\ \E error \in Errors \cup {NoError}, tmpOk \in BOOLEAN, baseOk \in BOOLEAN :
        LET faults == IF error = NoError THEN {} ELSE {1}
        IN Finish("initialize", error,
                  initialize(error, tmpOk, baseOk, DavMachine(faults)))

Download ==
    /\ Idle
    /\ \E rev \in BOOLEAN, baseOk \in BOOLEAN :
        \E k \in FaultPoints(download(rev, baseOk, DavMachine({}))) :
            Finish("download", NoError,
                   download(rev, baseOk, DavMachine(FaultAt(k))))

Upload ==
    /\ Idle
    /\ \E edit \in BaseEdits, rev \in BOOLEAN :
        \E k \in FaultPoints(upload(edit, rev, DavMachine({}))) :
            Finish("upload", NoError,
                   upload(edit, rev, DavMachine(FaultAt(k))))

\* The promise of the handler has settled and the caller goes on: what was
\* recorded of the handler is dropped and the cache object of its push is
\* released; the stores and the flag stay.
Settle ==
    /\ ~Idle
    /\ last' = "none"
    /\ threw' = FALSE
    /\ log' = <<>>
    /\ logged' = <<>>
    /\ thrown' = NoError
    /\ cached' = {}
    /\ prev' = [DavSnapshot EXCEPT !.cached = {}]
    /\ UNCHANGED <<remote, local, inited>>
    /\ UNCHANGED gitVars

\* The same, while the memory of the cache object of the push has not been
\* reclaimed: whatever kept a reference to it would still find its entries.
Linger ==
    /\ ~Idle
    /\ last' = "none"
    /\ threw' = FALSE
    /\ log' = <<>>
    /\ logged' = <<>>
    /\ thrown' = NoError
    /\ prev' = DavSnapshot
    /\ UNCHANGED <<remote, local, inited, cached>>
    /\ UNCHANGED gitVars

\* Between two handlers, something else that uses the remote store removes
\* one of its files, or one of its directories with all it holds.
RemoteRemove ==
    /\ Idle
    /\ \E p \in AllRemotePaths \ {Root} :
           remote' = [dirs |-> {d \in remote.dirs : ~IsPrefix(p, d)},
                      files |-> {e \in remote.files : ~IsPrefix(p, e[1])}]
    /\ prev' = [DavSnapshot EXCEPT !.remote = remote']
    /\ UNCHANGED <<local, inited, last, threw, log, logged, thrown, cached>>
    /\ UNCHANGED gitVars

(***************************************************************************)
(* The Git backend as a state machine.                                     *)
(***************************************************************************)
GitSnapshot ==
    [root |-> groot, repo |-> repo, wt |-> wt, pdirs |-> pdirs, head |-> head,
     commits |-> commits, ginited |-> ginited]

GitMachine(faults) ==
    [root |-> groot, repo |-> repo, wt |-> wt, pdirs |-> pdirs, head |-> head,
     commits |-> commits, ginited |-> ginited, profile |-> curProfile,
     log |-> <<>>, n |-> 0, faults |-> faults, err |-> FALSE, ret |-> FALSE]

GitIdle == glast = "none"

GitFinish(name, m) ==
    /\ Len(m.commits) <= MaxCommits
    /\ groot' = m.root
    /\ repo' = m.repo
    /\ wt' = m.wt
    /\ pdirs' = m.pdirs
    /\ head' = m.head
    /\ commits' = m.commits
    /\ ginited' = m.ginited
    /\ glast' = name
    /\ gthrew' = m.err
    /\ glog' = m.log
    /\ gprev' = GitSnapshot
    /\ UNCHANGED curProfile
    /\ UNCHANGED davVars

GitInitialize ==
    /\ GitIdle
    /\ \E k \in FaultPoints(LocalGit_initialize(GitMachine({}))) :
           GitFinish("initialize", LocalGit_initialize(GitMachine(FaultAt(k))))

GitUpload ==
    /\ GitIdle
    /\ \E edit \in GitEdits :
           \E k \in FaultPoints(LocalGit_upload(edit, GitMachine({}))) :
               GitFinish("upload", LocalGit_upload(edit, GitMachine(FaultAt(k))))

GitDuplicate ==
    /\ GitIdle
    /\ \E orig \in Profiles, new \in Profiles, ok \in BOOLEAN :
           /\ orig # new
           /\ \E k \in FaultPoints(duplicateProfileTo(orig, new, ok, GitMachine({}))) :
                  GitFinish("duplicate",
                            duplicateProfileTo(orig, new, ok, GitMachine(FaultAt(k))))

GitSettle ==
    /\ ~GitIdle
    /\ glast' = "none"
    /\ gthrew' = FALSE
    /\ glog' = <<>>
    /\ gprev' = GitSnapshot
    /\ UNCHANGED <<groot, repo, wt, pdirs, head, commits, ginited, curProfile>>
    /\ UNCHANGED davVars

\* the working trees of at most n files
GitContents == {"", "x"}
Functional(t) == \A e1, e2 \in t : (e1[1] = e2[1] /\ e1[2] = e2[2]) => e1 = e2
RECURSIVE GitTrees(_)
GitTrees(n) ==
    IF n = 0 THEN {{}}
    ELSE LET smaller == GitTrees(n - 1)
             grown == {t \cup {<<p, f, c>>} :
                          t \in smaller,
                          p \in Profiles, f \in FileNames, c \in GitContents}
         IN smaller \cup {t \in grown : Functional(t)}

\* a backend that has just been constructed, over whatever the disk holds
GitInit ==
    /\ ginited = FALSE
    /\ curProfile \in Profiles
    /\ groot \in BOOLEAN
    /\ repo \in {"none", "root", "parent"}
    /\ wt \in GitTrees(MaxGitFiles)
    /\ pdirs \in SUBSET Profiles
    /\ head \in {{}, wt}
    /\ commits = <<>>
    /\ {e[1] : e \in wt} \subseteq pdirs
    /\ ~groot => (wt = {} /\ pdirs = {} /\ repo # "root")
    /\ repo = "none" => head = {}
    /\ glast = "none" /\ gthrew = FALSE /\ glog = <<>>
    /\ gprev = GitSnapshot

\* the backend that is not in use
GitOff ==
    /\ ginited = FALSE /\ curProfile = "main" /\ groot = FALSE /\ repo = "none"
    /\ wt = {} /\ pdirs = {} /\ head = {} /\ commits = <<>>
    /\ glast = "none" /\ gthrew = FALSE /\ glog = <<>>
    /\ gprev = GitSnapshot
DavOff ==
    /\ inited = FALSE /\ local = EmptyTree /\ remote = EmptyTree
    /\ DavIdle

(***************************************************************************)
(* Specifications.                                                         *)
(***************************************************************************)
\* the health check on a fresh WebDAV backend
HealthInit ==
    /\ inited = FALSE
    /\ local = EmptyTree
    /\ remote \in TreesUpTo(MaxEntries, InitContents)
    /\ DavIdle
    /\ GitOff
HealthNext == Initialize \/ Settle
HealthSpec == HealthInit /\ [][HealthNext]_vars

\* downloads and uploads on an initialized WebDAV backend
SyncInit ==
    /\ inited = TRUE
    /\ \E pair \in TreePairs(MaxEntries) : local = pair[1] /\ remote = pair[2]
    /\ DavIdle
    /\ GitOff
PullNext == Download \/ Settle
PullSpec == SyncInit /\ [][PullNext]_vars
PushNext == Upload \/ Settle
PushSpec == SyncInit /\ [][PushNext]_vars

\* a WebDAV backend from its construction on: the health check, then
\* downloads and uploads, whether or not the health check passed
LifecycleNext == Initialize \/ Download \/ Upload \/ Settle
LifecycleInit ==
    /\ inited = FALSE
    /\ \E pair \in TreePairs(MaxLifecycleEntries) : local = pair[1] /\ remote = pair[2]
    /\ DavIdle
    /\ GitOff
LifecycleSpec == LifecycleInit /\ [][LifecycleNext]_vars

\* uploads on an initialized WebDAV backend whose remote store is also
\* changed from elsewhere
SharedNext == Upload \/ RemoteRemove \/ Linger
SharedSpec == SyncInit /\ [][SharedNext]_vars

\* the Git backend
GitNext == GitInitialize \/ GitUpload \/ GitDuplicate \/ GitSettle
GitSpecInit == GitInit /\ DavOff
GitSpec == GitSpecInit /\ [][GitNext]_vars

(***************************************************************************)
(* Properties.                                                             *)
(***************************************************************************)
\* the handler that ran last told Logger.info this text
Said(text) == \E i \in 1..Len(log) : log[i].op = "info" /\ log[i].data = text
\* the positions of the log entries of the operations ops
At(ops) == {i \in 1..Len(log) : log[i].op \in ops}
AllPaths(t) == t.dirs \cup FilePaths(t)

\* the pull of the download that ran last completed without an error
PullCompleted == last = "download" /\ Said("pull done")

\* C1: WebDAV pull is a full replace.  When pull() has completed without an
\* error, the directories of the local mirror are exactly the directories of
\* the remote store, its files are exactly the remote files at the same
\* paths, every remote text is in the mirror byte for byte, and no path of
\* the prior mirror that is absent remotely survives.
C1_PullIsFullReplace ==
    PullCompleted =>
        /\ remote = prev.remote
        /\ local.dirs = remote.dirs
        /\ FilePaths(local) = FilePaths(remote)
        /\ \A e \in remote.files : e[2] \in Texts => e \in local.files
        /\ \A p \in AllPaths(prev.local) : ~Exists(remote, p) => ~Exists(local, p)

\* a completed pull that removed a stale file, replaced the content of
\* another path and fetched a file from a subdirectory
C1_Witness ==
    /\ PullCompleted
    /\ \E p \in FilePaths(prev.local) : ~Exists(remote, p)
    /\ \E e \in local.files : Len(e[1]) = 2 /\ e[2] \in Texts

\* the push of the upload that ran last completed without an error
PushCompleted == last = "upload" /\ Said("push done")
\* the regular files globby enumerates in tree t
Enumerated(t) == {globby(t, FALSE)[i] : i \in 1..Len(globby(t, FALSE))}
RemoteCalls == {"stat", "mkdir", "readdir", "readFile", "writeFile"}

C3_AtMostOncePerPush ==
    last = "upload" =>
        /\ \A i, j \in At({"stat"}) : log[i].path = log[j].path => i = j
        /\ \A i, j \in At({"mkdir"}) : log[i].path = log[j].path => i = j
        /\ \A i \in At({"stat", "mkdir"}) : log[i].path \notin log[i].cache

\* a push that created a directory below the root once and then uploaded
\* two files into it
C3_Witness ==
    /\ last = "upload"
    /\ \E i \in At({"mkdir"}) :
           /\ log[i].ok /\ log[i].path # Root
           /\ \E j, k \in At({"writeFile"}) :
                  /\ j # k
                  /\ Parent(log[j].path) = log[i].path
                  /\ Parent(log[k].path) = log[i].path

\* C4: ancestors before descendants.  Whenever a push issues stat or mkdir
\* for a path, every proper ancestor of the path, up to the root, has before
\* that been the path of a successful stat or a successful mkdir of the same
\* push.
C4_AncestorsFirst ==
    last = "upload" =>
        \A i \in At({"stat", "mkdir"}) :
            \A a \in Ancestors(log[i].path) :
                \E j \in 1..(i - 1) :
                    /\ log[j].op \in {"stat", "mkdir"}
                    /\ log[j].path = a
                    /\ log[j].ok

\* a push that created a directory two levels below the root after it had
\* created its parent
C4_Witness ==
    /\ last = "upload"
    /\ \E i, j \in At({"mkdir"}) :
           /\ log[i].ok /\ log[j].ok
           /\ Len(log[i].path) = 2
           /\ log[j].path = Parent(log[i].path)

\* C10: WebDAV push has no rollback.  When a mkdir or a writeFile of a push
\* fails, upload() throws, no remote operation follows the failed one, push
\* does not complete, and everything the push created or uploaded before
\* is in the remote store, next to all that was there before the push.
C10_NoRollback ==
    last = "upload" =>
        \A i \in At({"mkdir", "writeFile"}) :
            ~log[i].ok =>
                /\ threw
                /\ ~Said("push done")
                /\ \A j \in (i + 1)..Len(log) : log[j].op \notin RemoteCalls
                /\ \A j \in 1..(i - 1) :
                       /\ (log[j].op = "writeFile" /\ log[j].ok) =>
                              <<log[j].path, log[j].data>> \in remote.files
                       /\ (log[j].op = "mkdir" /\ log[j].ok) =>
                              log[j].path \in remote.dirs
                /\ prev.remote.dirs \subseteq remote.dirs
                /\ \A e \in prev.remote.files :
                       \/ e \in remote.files
                       \/ \E j \in 1..(i - 1) :
                              log[j].op = "writeFile" /\ log[j].ok /\ log[j].path = e[1]

\* a push whose second upload failed after it had created a directory and
\* uploaded a first file
C10_Witness ==
    /\ last = "upload"
    /\ \E i, j, k \in 1..Len(log) :
           /\ j < i /\ k < i
           /\ log[i].op = "writeFile" /\ ~log[i].ok
           /\ log[j].op = "writeFile" /\ log[j].ok
           /\ log[k].op = "mkdir" /\ log[k].ok

\* the root stat of the initialize that ran last failed
RootStatFailed ==
    /\ last = "initialize"
    /\ \E i \in At({"stat"}) : log[i].path = Root /\ ~log[i].ok
BaseInitializeCalled == At({"baseInitialize"}) # {}

\* C7: the health check aborts without throwing.  When the root stat of
\* initialize() fails, initialize() returns normally, the base
\* initialization is not called and the initialized flag is what it was
\* (false on a backend that was not initialized); and the base
\* initialization is called only after a successful root stat.
C7_HealthCheckAborts ==
    last = "initialize" =>
        /\ RootStatFailed =>
               /\ ~threw
               /\ ~BaseInitializeCalled
               /\ inited = prev.inited
               /\ ~prev.inited => ~inited
        /\ \A i \in At({"baseInitialize"}) :
               \E j \in 1..(i - 1) :
                   log[j].op = "stat" /\ log[j].path = Root /\ log[j].ok

\* an initialize on a fresh backend whose root stat failed
C7_Witness == RootStatFailed /\ ~prev.inited /\ thrown.status = NotFound

\* C8: health-check classification.  A failed root stat logs exactly one
\* error message: the refused message when the error has the code
\* ECONNREFUSED; otherwise the unauthorized message when its status is 401;
\* otherwise the not-found message when its status is 404; otherwise the
\* stringified error.  The three messages are pairwise distinct, and a
\* root stat that succeeds logs none.
C8_HealthClassification ==
    /\ RefusedMessage # UnauthorizedMessage
    /\ RefusedMessage # NotFoundMessage
    /\ UnauthorizedMessage # NotFoundMessage
    /\ (last = "initialize" /\ ~RootStatFailed) => logged = <<>>
    /\ RootStatFailed =>
           /\ Len(logged) = 1
           /\ logged[1] =
                  IF thrown.code = "ECONNREFUSED"
                  THEN "The connection to \"https://dav.example/sync\" is refused."
                  ELSE IF thrown.status = 401
                  THEN "The connection to \"https://dav.example/sync\" isn't authorized."
                  ELSE IF thrown.status = 404
                  THEN "The url \"https://dav.example/sync\" can't be found."
                  ELSE thrown.text

\* a failed root stat whose error is both refused and unauthorized
C8_Witness ==
    /\ RootStatFailed
    /\ thrown.code = "ECONNREFUSED"
    /\ thrown.status = Unauthorized
    /\ logged = <<RefusedMessage>>

\* the positions of the entries of the operations ops in the Git log
GitAt(ops) == {i \in 1..Len(glog) : glog[i].op \in ops}
\* the handler that ran last made a commit
Committed == \E i \in GitAt({"commit"}) : glog[i].ok
\* a handler runs in this step
GitHandlerStep == glast = "none" /\ glast' # "none"

\* C5: Git push no-op idempotence.  (a) A push whose staged list is empty
\* issues no commit.  (b) After a handler whose push committed, everything
\* is committed: the last commit holds the working tree.  (c) A handler that
\* starts with everything committed and leaves the working tree as it was
\* adds no commit, so pushes repeated without an edit in between leave the
\* number of commits unchanged.
C5_NoOpPushIdempotent ==
    /\ [](\A i \in GitAt({"status"}) :
              (glog[i].ok /\ glog[i].ret = {}) => GitAt({"commit"}) = {})
    /\ [](Committed => (head = wt /\ Len(commits) = Len(gprev.commits) + 1))
    /\ [][(GitHandlerStep /\ head = wt /\ wt' = wt) => commits' = commits]_vars

\* a push that found nothing staged, run when a commit had been made before
C5_Witness ==
    /\ glast = "upload"
    /\ ~gthrew
    /\ Len(commits) = 1
    /\ gprev.commits = commits
    /\ \E i \in GitAt({"status"}) : glog[i].ok /\ glog[i].ret = {}

\* the profile a handler passes to push: the new profile of
\* duplicateProfileTo, the current profile otherwise
PushedProfile ==
    IF glast = "duplicate"
    THEN glog[CHOOSE i \in GitAt({"baseDuplicate"}) : TRUE].arg[2]
    ELSE curProfile

\* C6: commit message derivation.  Every commit a handler issues has the
\* message "<profile>: create" when the handler pushes with CREATE
\* (initialize, duplicateProfileTo) and "<profile>: update" when it pushes
\* with UPLOAD (upload), where <profile> is the new profile of
\* duplicateProfileTo and the current profile otherwise; every message in
\* the history is one of these.
C6_CommitMessage ==
    /\ \A i \in GitAt({"commit"}) :
           /\ glast \in {"initialize", "duplicate"} =>
                  glog[i].arg = PushedProfile \o ": create"
           /\ glast = "upload" => glog[i].arg = PushedProfile \o ": update"
           /\ \E j \in 1..(i - 1) :
                  /\ glog[j].op = "push"
                  /\ glog[j].arg[2] = PushedProfile
                  /\ glog[j].arg[1] = (IF glast = "upload" THEN UPLOAD ELSE CREATE)
    /\ \A k \in 1..Len(commits) :
           commits[k] \in {"main: create", "main: update", "work: create", "work: update"}

\* an upload of profile work that committed "work: update"
C6_Witness ==
    /\ glast = "upload"
    /\ curProfile = "work"
    /\ commits = <<"work: update">>
    /\ Committed

\* duplicateProfileTo has returned normally
DuplicateReturned == glast = "duplicate" /\ ~gthrew
NewProfile == glog[CHOOSE i \in GitAt({"baseDuplicate"}) : TRUE].arg[2]
OrigProfile == glog[CHOOSE i \in GitAt({"baseDuplicate"}) : TRUE].arg[1]

\* C9: the placeholder on duplication.  After duplicateProfileTo(old, new)
\* has returned, the directory of the new profile exists and holds
\* .gitkeep; when the marker was found after the base copy it was not
\* written, so a marker the base copy did not touch keeps its content; and
\* exactly one push was made, with CREATE and the new profile.
C9_PlaceholderOnDuplicate ==
    DuplicateReturned =>
        /\ NewProfile \in pdirs
        /\ <<NewProfile, GitKeep>> \in WtPaths(wt)
        /\ \A i \in GitAt({"exists"}) : glog[i].ret => GitAt({"writeFile"}) = {}
        /\ \A e \in gprev.wt :
               (/\ e[1] = NewProfile /\ e[2] = GitKeep
                /\ <<OrigProfile, GitKeep>> \notin WtPaths(gprev.wt)) => e \in wt
        /\ Cardinality(GitAt({"push"})) = 1
        /\ \A i \in GitAt({"push"}) : glog[i].arg = <<CREATE, NewProfile>>

\* a duplication into a profile other than the current one, where the base
\* copy produced nothing and the marker had to be written
C9_Witness ==
    /\ DuplicateReturned
    /\ NewProfile # curProfile
    /\ OrigProfile \notin gprev.pdirs
    /\ NewProfile \notin gprev.pdirs
    /\ <<NewProfile, GitKeep, "">> \in wt

\* the positions of the successful entries of the operations ops
OkAt(ops) == {i \in At(ops) : log[i].ok}

\* C11: WebDAV pull aborts on the first I/O error.  When a remote listing
\* or fetch of a download fails, it is the last thing the download does (no
\* remote operation, no local write and no base download step follows), it
\* was issued once, the download throws, and the mirror holds exactly the
\* directories created and the files written before the failure.
C11_PullAbortsOnFirstError ==
    last = "download" =>
        \A i \in At({"readdir", "readFile"}) :
            ~log[i].ok =>
                /\ threw
                /\ i = Len(log)
                /\ At({"baseDownload"}) = {}
                /\ Cardinality({j \in At({log[i].op}) : log[j].path = log[i].path}) = 1
                /\ local.dirs = {log[j].path : j \in OkAt({"lmkdir"})}
                /\ local.files = {<<log[j].path, log[j].data>> : j \in OkAt({"lwrite"})}
                /\ remote = prev.remote

\* a fetch that failed after a file had been written and while the remote
\* store held more than had been fetched
C11_Witness ==
    /\ last = "download"
    /\ \E i \in At({"readFile"}) : ~log[i].ok
    /\ OkAt({"lwrite"}) # {}
    /\ FilePaths(local) # FilePaths(remote)

\* the local directory path was created, by an entry before position i, in
\* the pull of the download that ran last
CreatedBefore(path, i) ==
    \E j \in OkAt({"lmkdir"}) :
        /\ j < i
        /\ log[j].path = path
        /\ \E k \in At({"remove"}) : k < j /\ log[k].path = Root

\* C12: pull materializes parents first.  In every download, a remote
\* directory (the root included) is listed only after the local directory
\* at the same path has been created in this pull, and a local file is
\* written and a local directory is created only after the local directory
\* that holds it has been created in this pull.
C12_ParentsFirst ==
    last = "download" =>
        /\ \A i \in At({"readdir"}) : CreatedBefore(log[i].path, i)
        /\ \A i \in At({"lwrite", "lmkdir"}) :
               log[i].path # Root => CreatedBefore(Parent(log[i].path), i)
        /\ \A i \in At({"readFile"}) : CreatedBefore(Parent(log[i].path), i)

\* a pull that wrote a file into a subdirectory of a subdirectory
C12_Witness ==
    /\ PullCompleted
    /\ \E i \in OkAt({"lwrite"}) : Len(log[i].path) = 3

\* the directory cache right after the entry at position i of the log
CacheAfter(i) == IF i < Len(log) THEN log[i + 1].cache ELSE cached
\* the probe and the creation of ensureDir, in every upload: a stat is issued
\* for a path that is not in the cache; a mkdir is issued right after a
\* failed stat of the same path, and after nothing else; a stat that
\* succeeded is not followed by a mkdir
ProbeThenCreate ==
    /\ \A i \in At({"stat"}) :
           /\ log[i].path \notin log[i].cache
           /\ ~log[i].ok =>
                  /\ i < Len(log)
                  /\ log[i + 1].op = "mkdir"
                  /\ log[i + 1].path = log[i].path
           /\ log[i].ok => (i = Len(log) \/ log[i + 1].op # "mkdir")
    /\ \A i \in At({"mkdir"}) :
           /\ i > 1
           /\ log[i - 1].op = "stat"
           /\ log[i - 1].path = log[i].path
           /\ ~log[i - 1].ok

\* C13 as stated: probe-then-create, and the cache holds the path after
\* either branch: the stat succeeded, or the stat failed and mkdir was
\* attempted.
C13_CacheAfterEitherBranch ==
    last = "upload" =>
        /\ ProbeThenCreate
        /\ \A i \in OkAt({"stat"}) : log[i].path \in CacheAfter(i)
        /\ \A i \in At({"mkdir"}) : log[i].path \in CacheAfter(i)

\* C13, amended: ensureDir probe-then-create.  For a path that is not in
\* the cache ensureDir issues stat first; mkdir is issued if and only if
\* that stat failed, with whatever error; the cache holds the path after a
\* stat that succeeded and after a mkdir that succeeded; a mkdir that fails
\* ends the push with its error and leaves the path out of the cache.
C13_ProbeThenCreate ==
    last = "upload" =>
        /\ ProbeThenCreate
        /\ \A i \in OkAt({"stat", "mkdir"}) : log[i].path \in CacheAfter(i)
        /\ \A i \in At({"mkdir"}) :
               ~log[i].ok =>
                   /\ i = Len(log)
                   /\ threw
                   /\ log[i].path \notin cached

\* an upload in which a stat failed on a directory that exists, one stat
\* succeeded and the mkdir that followed the failed stat was refused
C13_Witness ==
    /\ last = "upload"
    /\ OkAt({"stat"}) # {}
    /\ \E i \in At({"stat"}) : ~log[i].ok /\ log[i].path \in prev.remote.dirs
    /\ \E i \in At({"mkdir"}) : ~log[i].ok

\* the positions in the log of the pushFile of file f: from its "push file"
\* line up to the next one
PushFileSpan(i) ==
    {j \in (i + 1)..Len(log) :
        \A k \in (i + 1)..j : ~(log[k].op = "info" /\ log[k].data = "push file")}
PushFileAt == {i \in At({"info"}) : log[i].data = "push file"}

\* C14: upload only after the parent chain is settled.  In every upload, at
\* each writeFile, which belongs to the pushFile of its file, the parent
\* directory of the file and all its ancestors are in the cache; and a
\* pushFile in which the mkdir of ensureDir failed issues no writeFile.
C14_UploadAfterEnsureDir ==
    last = "upload" =>
        /\ \A i \in At({"writeFile"}) :
               /\ Ancestors(log[i].path) \subseteq log[i].cache
               /\ Parent(log[i].path) \in log[i].cache
               /\ \E j \in PushFileAt :
                      /\ log[j].path = log[i].path
                      /\ i \in PushFileSpan(j)
        /\ \A j \in PushFileAt :
               (\E k \in PushFileSpan(j) : log[k].op = "mkdir" /\ ~log[k].ok) =>
                   \A k \in PushFileSpan(j) : log[k].op # "writeFile"

\* an upload that wrote a file two directories down after it had created
\* a directory
C14_Witness ==
    /\ last = "upload"
    /\ \E i \in OkAt({"writeFile"}) :
           /\ Len(log[i].path) = 3
           /\ OkAt({"mkdir"}) # {}

PullSteps == {"info", "remove", "lmkdir", "readdir", "readFile", "lwrite"}
PushSteps == {"info", "stat", "mkdir", "lread", "writeFile"}

\* C15: lifecycle ordering on the WebDAV backend.  A download begins with
\* the one precondition check; every step of pull follows the check that
\* passed and precedes the base download step, which runs last, after
\* "pull done".  An upload begins with the one precondition check, then
\* runs the base upload step, and every step of push follows the base step
\* that completed.  On a backend whose flag is false a download and an
\* upload throw at the check: nothing else is issued and the mirror and the
\* remote store stay as they were.
C15_LifecycleOrder ==
    /\ last \in {"download", "upload"} =>
           /\ Len(log) >= 1
           /\ log[1].op = "checkInitialized"
           /\ log[1].ok = prev.inited
           /\ At({"checkInitialized"}) = {1}
    /\ last = "download" =>
           /\ \A i \in At(PullSteps) :
                  /\ log[1].ok
                  /\ \A j \in At({"baseDownload"}) : i < j
           /\ \A j \in At({"baseDownload"}) : j = Len(log) /\ Said("pull done")
           /\ At({"baseUpload"}) = {}
    /\ last = "upload" =>
           /\ At({"baseUpload"}) \subseteq {2}
           /\ \A i \in At(PushSteps) :
                  /\ log[1].ok
                  /\ 2 \in OkAt({"baseUpload"})
                  /\ i > 2
           /\ At({"baseDownload"}) = {}
    /\ (last \in {"download", "upload"} /\ ~prev.inited) =>
           /\ threw
           /\ Len(log) = 1
           /\ local = prev.local
           /\ remote = prev.remote

\* a download on a backend whose health check failed, over a mirror that
\* holds a file the remote store has not
C15_Witness ==
    /\ last = "download"
    /\ ~prev.inited
    /\ \E p \in FilePaths(local) : ~Exists(remote, p)

\* the paths a stat or a mkdir of this run found or created before entry i
SettledBefore(i) == {log[j].path : j \in {k \in OkAt({"stat", "mkdir"}) : k < i}}

\* C16: the directory cache is fresh for every push.  In every upload,
\* whatever cache object an earlier push left behind, the cache holds at
\* each stat, mkdir, read and writeFile only paths this push has found or
\* created (so it is empty at the first of them); the parent of
\* every file written has been probed by this push; and a directory that
\* is missing from the remote store when the push starts has been created
\* by a mkdir of this push before a file is written below it.
C16_CacheFreshPerPush ==
    last = "upload" =>
        /\ \A i \in At({"stat", "mkdir", "lread", "writeFile"}) :
               log[i].cache \subseteq SettledBefore(i)
        /\ \A i \in At({"writeFile"}) :
               \E j \in At({"stat"}) : j < i /\ log[j].path = Parent(log[i].path)
        /\ \A i \in OkAt({"writeFile"}) :
               \A d \in Ancestors(log[i].path) :
                   d \notin prev.remote.dirs =>
                       \E j \in OkAt({"mkdir"}) : j < i /\ log[j].path = d

\* a push that recreated a directory which an earlier push had in its
\* cache and which was removed from the remote store since, and wrote a
\* file into it
C16_Witness ==
    /\ last = "upload"
    /\ ~threw
    /\ \E i \in OkAt({"writeFile"}), j \in OkAt({"mkdir"}) :
           /\ j < i
           /\ log[j].path = Parent(log[i].path)
           /\ log[j].path \in prev.cached
           /\ log[j].path \notin prev.remote.dirs

\* the pull of the initialize that ran last got its answer from checkIsRepo
PullChecked ==
    /\ glast = "initialize"
    /\ \E i \in GitAt({"checkIsRepo"}) : glog[i].ok

\* C17: Git pull establishes the index idempotently.  pull() ensures the
\* mirror directory exists and initializes an index, with the configured
\* branch, if and only if none exists at the root of the mirror; an index
\* that exists at the root is not initialized again; and a pull that
\* returns returns true, so that the error branch of initialize is not
\* taken.
C17_PullEstablishesIndex ==
    /\ PullChecked =>
           /\ groot
           /\ (GitAt({"init"}) # {}) <=> (gprev.repo # "root")
           /\ Cardinality(GitAt({"init"})) <= 1
           /\ \A i \in GitAt({"init"}) : glog[i].arg = Branch
    /\ GitAt({"error"}) = {}

\* the mirror a pull run now would leave
MirrorAfterPull == pull(FALSE, DavMachine({})).local
\* the remote path p is as it was when the handler started
RemoteUnchangedAt(p) ==
    /\ p \in remote.dirs <=> p \in prev.remote.dirs
    /\ \A c \in Contents : <<p, c>> \in remote.files <=> <<p, c>> \in prev.remote.files

\* C18: WebDAV push never removes anything from the remote store.  The
\* remote operations of an upload are stat, mkdir and writeFile; every
\* remote path without a counterpart in the mirror is left as it was;
\* after a push that completed the remote files include every file of the
\* mirror; and a pull right after such a push gives back the mirror the
\* push started from only when the remote store held no path absent from it.
C18_PushNeverRemoves ==
    last = "upload" =>
        /\ \A i \in At(RemoteCalls) : log[i].op \in {"stat", "mkdir", "writeFile"}
        /\ \A p \in AllPaths(prev.remote) : ~Exists(local, p) => RemoteUnchangedAt(p)
        /\ PushCompleted => FilePaths(local) \subseteq FilePaths(remote)
        /\ (PushCompleted /\ MirrorAfterPull = local) =>
               AllPaths(prev.remote) \subseteq AllPaths(local)

\* a remote operation of the download that ran last failed
PullFailed == last = "download" /\ \E i \in At({"readdir", "readFile"}) : ~log[i].ok
RootListingFailed ==
    /\ last = "download"
    /\ \E i \in At({"readdir"}) : log[i].path = Root /\ ~log[i].ok

\* C19: pull wipes before it contacts the remote store.  In every download
\* the mirror root has been removed and created again before the first
\* remote operation; after a pull that failed the mirror holds only
\* directories this pull created and files this pull fetched from the
\* remote store and wrote; and it is empty when the root listing failed.
C19_WipeBeforeRemote ==
    /\ last = "download" =>
           \A i \in At(RemoteCalls) :
               \E j, k \in 1..(i - 1) :
                   /\ j < k
                   /\ log[j].op = "remove" /\ log[j].path = Root
                   /\ log[k].op = "lmkdir" /\ log[k].path = Root /\ log[k].ok
    /\ PullFailed =>
           /\ local.dirs = {log[j].path : j \in OkAt({"lmkdir"})}
           /\ \A e \in local.files :
                  \E j \in OkAt({"lwrite"}), k \in OkAt({"readFile"}) :
                      /\ k < j
                      /\ log[k].path = e[1]
                      /\ log[j].path = e[1] /\ log[j].data = e[2]
    /\ RootListingFailed => local = EmptyTree

\* a root listing that failed over a mirror that held files
C19_Witness ==
    /\ RootListingFailed
    /\ prev.local.files # {}
    /\ local.files = {}

\* the initialize that ran last set the flag
FlagSet == glast = "initialize" /\ ginited /\ ~gprev.ginited

\* C20: Git initialize sets the flag only at the very end.  Whenever the
\* flag is true the mirror directory and a repository exist and the marker
\* of the current profile is in the working tree.  An initialize that sets
\* the flag did not throw, its pull got through checkIsRepo, and when it
\* wrote the marker a push with CREATE and the current profile followed and
\* completed.  An initialize that throws leaves the flag as it was, one that
\* returns leaves it true, and none takes the "can not pull" branch.
C20_FlagSetLast ==
    /\ ginited =>
           /\ groot
           /\ repo # "none"
           /\ <<curProfile, GitKeep>> \in WtPaths(wt)
    /\ glast = "initialize" =>
           /\ GitAt({"error"}) = {}
           /\ gthrew => ginited = gprev.ginited
           /\ ~gthrew => ginited
    /\ FlagSet =>
           /\ ~gthrew
           /\ \A i \in 1..Len(glog) : glog[i].ok
           /\ GitAt({"checkIsRepo"}) # {}
           /\ \A i \in GitAt({"writeFile"}) :
                  \E j \in GitAt({"push"}), k \in GitAt({"status"}) :
                      /\ i < j /\ j < k
                      /\ glog[j].arg = <<CREATE, curProfile>>

\* an initialize that created the repository and the marker, committed it
\* and set the flag
C20_Witness ==
    /\ FlagSet
    /\ GitAt({"init"}) # {}
    /\ GitAt({"writeFile"}) # {}
    /\ commits = <<curProfile \o ": create">>

====
